---- MODULE Spec2Model ----
(***************************************************************************)
(* Model of the static site generator in src/main.py.                      *)
(*                                                                         *)
(* Text is a sequence of one-character strings.  The only elements longer  *)
(* than one character are the literal HTML fragments process_image emits   *)
(* (ImgSrc, ImgAlt, ...): they hold none of the characters the three       *)
(* regular expressions or strip()/split() look for, so treating each as    *)
(* one element does not change any match.                                  *)
(*                                                                         *)
(* The file system is the function fs from path to file content; a path    *)
(* exists iff it is in DOMAIN fs.                                          *)
(***************************************************************************)
EXTENDS Integers, Sequences, FiniteSets, TLC

VARIABLES
  \* process_content and its callbacks
  fs,        \* path -> content of every existing file (vault and output)
  pages,     \* config['pages']
  scen,      \* the input scenario this run was started with
  input,     \* the content handed to the top-level process_content call
  stack,     \* the chain of nested process_content calls, innermost last
  pc,        \* "run" | "done"
  result,    \* what the top-level call returned
  hist,      \* one record per process_image call, in call order
  trunc,     \* contents returned unchanged by the depth guard
  steps,     \* substitutions, calls and returns made so far
  \* remove_frontmatter
  fmText, fmOnce, fmTwice, fmPc,
  \* generate_site
  sPages, sMtime, sIdx, sPc, processed, outcome, written, indexPages, feedPages

cvars == <<fs, pages, scen, input, stack, pc, result, hist, trunc, steps>>
fvars == <<fmText, fmOnce, fmTwice, fmPc>>
svars == <<sPages, sMtime, sIdx, sPc, processed, outcome, written, indexPages, feedPages>>
vars == <<cvars, fvars, svars>>

----------------------------------------------------------------------------
(* Bounds of the model *)

MaxLines == 6      \* lines of a text handed to remove_frontmatter
MaxAttrs == 3      \* attribute tokens of a generated image reference
MaxRefs == 3       \* image references in one generated text
MaxPages == 3      \* entries of a generated config['pages'] list
MaxSteps == 20000   \* steps of one top-level process_content call

(* Program constant: the recursion ceiling of process_content *)
MaxDepth == 10

----------------------------------------------------------------------------
(* Characters and strings *)

NL == "\n"
None == <<>>                 \* process_image's None (a tag is never empty)
NoneContent == <<"<None>">>  \* process_content called with content = None

Min(S) == CHOOSE x \in S : \A y \in S : x <= y
Max(S) == CHOOSE x \in S : \A y \in S : x >= y

IsSpace(c) == c \in {" ", NL, "\t"}
IsDigitChar(c) == c \in {"0", "1", "2", "3", "4", "5", "6", "7", "8", "9"}

UpperLetters == <<"A","B","C","D","E","F","G","H","I","J","K","L","M",
                  "N","O","P","Q","R","S","T","U","V","W","X","Y","Z">>
LowerLetters == <<"a","b","c","d","e","f","g","h","i","j","k","l","m",
                  "n","o","p","q","r","s","t","u","v","w","x","y","z">>

\* str.lower()
LowerChar(c) ==
  IF \E k \in 1..26 : UpperLetters[k] = c
  THEN LowerLetters[CHOOSE k \in 1..26 : UpperLetters[k] = c]
  ELSE c
Lower(s) == [k \in 1..Len(s) |-> LowerChar(s[k])]

\* str.isdigit()
IsDigit(s) == Len(s) > 0 /\ \A k \in 1..Len(s) : IsDigitChar(s[k])

StartsWithAt(t, i, p) ==
  /\ i >= 1
  /\ i + Len(p) - 1 <= Len(t)
  /\ \A k \in 1..Len(p) : t[i + k - 1] = p[k]

\* str.endswith()
EndsWith(t, p) == Len(t) >= Len(p) /\ StartsWithAt(t, Len(t) - Len(p) + 1, p)

Contains(t, p) == \E i \in 1..(Len(t) + 1) : StartsWithAt(t, i, p)

\* '.' of a regular expression compiled without DOTALL
NoNL(t, a, b) == \A k \in a..b : t[k] # NL
AllSpace(t, a, b) == \A k \in a..b : IsSpace(t[k])

\* str.strip()
Strip(s) ==
  LET keep == {k \in 1..Len(s) : ~IsSpace(s[k])}
  IN IF keep = {} THEN <<>> ELSE SubSeq(s, Min(keep), Max(keep))

\* str.strip(c)
StripChar(s, c) ==
  LET keep == {k \in 1..Len(s) : s[k] # c}
  IN IF keep = {} THEN <<>> ELSE SubSeq(s, Min(keep), Max(keep))

\* str.split(sep) for a one-character separator
RECURSIVE SplitFrom(_, _, _)
SplitFrom(s, sep, from) ==
  LET at == {k \in from..Len(s) : s[k] = sep}
  IN IF at = {} THEN <<SubSeq(s, from, Len(s))>>
     ELSE <<SubSeq(s, from, Min(at) - 1)>> \o SplitFrom(s, sep, Min(at) + 1)
Split(s, sep) == SplitFrom(s, sep, 1)

----------------------------------------------------------------------------
(* Paths *)

MD == <<".", "m", "d">>
HTML == <<".", "h", "t", "m", "l">>
Attachments == <<"a", "t", "t", "a", "c", "h", "m", "e", "n", "t", "s">>
Images == <<"i", "m", "a", "g", "e", "s">>
VaultPath == <<"v">>      \* config['vault_path']
OutputPath == <<"o">>     \* config['output_path']

\* os.path.isabs
IsAbs(p) == Len(p) > 0 /\ p[1] = "/"

\* os.path.join(a, b)
Join(a, b) ==
  IF IsAbs(b) THEN b
  ELSE IF a = <<>> \/ a[Len(a)] = "/" THEN a \o b
  ELSE a \o <<"/">> \o b

\* os.path.basename
Basename(p) ==
  LET at == {k \in 1..Len(p) : p[k] = "/"}
  IN IF at = {} THEN p ELSE SubSeq(p, Max(at) + 1, Len(p))

\* os.path.splitext(p)[0], for a file name
Stem(p) ==
  LET at == {k \in 2..Len(p) : p[k] = "." /\ \A m \in k..Len(p) : p[m] # "/"}
  IN IF at = {} THEN p ELSE SubSeq(p, 1, Max(at) - 1)

\* shutil.copy2(src, dst): dst is created or overwritten with src's content
CopyFile(f, src, dst) ==
  [p \in DOMAIN f \cup {dst} |-> IF p = dst THEN f[src] ELSE f[p]]

----------------------------------------------------------------------------
(* remove_frontmatter: re.compile(r'^---\s*\n(.*?\n)---\s*\n', re.DOTALL)  *)
(* .sub('', content).  The match is the first one in the matcher's order:  *)
(* the opening \s* longest first, the lazy group shortest first, the       *)
(* closing \s* longest first.                                              *)

Dashes == <<"-", "-", "-">>

\* ends m of '---\s*\n' when its '---' starts at i: t[m] is the final \n
DashLineEnds(t, i) ==
  IF ~StartsWithAt(t, i, Dashes) THEN {}
  ELSE {m \in (i + 3)..Len(t) : t[m] = NL /\ AllSpace(t, i + 3, m - 1)}

\* ends of the whole pattern when the lazy group starts at c: the group
\* ends at the first \n that a closing line follows
FrontmatterCloseEnds(t, c) ==
  LET es == {e \in c..Len(t) : t[e] = NL /\ DashLineEnds(t, e + 1) # {}}
  IN IF es = {} THEN {} ELSE {Max(DashLineEnds(t, Min(es) + 1))}

\* the end of the match at position zero, 0 when there is none
FrontmatterMatchEnd(t) ==
  LET opens == {m \in DashLineEnds(t, 1) : FrontmatterCloseEnds(t, m + 1) # {}}
  IN IF opens = {} THEN 0
     ELSE CHOOSE x \in FrontmatterCloseEnds(t, Max(opens) + 1) : TRUE

\* faulty variant: the pattern is not anchored at position zero
RemoveFrontmatterUnanchored(content) ==
  LET starts == {i \in 1..Len(content) :
                   /\ DashLineEnds(content, i) # {}
                   /\ \E m \in DashLineEnds(content, i) :
                        FrontmatterCloseEnds(content, m + 1) # {}}
  IN IF starts = {} THEN content
     ELSE LET i == Min(starts)
              rest == SubSeq(content, i, Len(content))
          IN SubSeq(content, 1, i - 1)
               \o SubSeq(rest, FrontmatterMatchEnd(rest) + 1, Len(rest))

RemoveFrontmatter(content) ==
  SubSeq(content, FrontmatterMatchEnd(content) + 1, Len(content))

----------------------------------------------------------------------------
(* process_image (the closure inside process_content)                      *)

ImgSrc == "<img src=\"images/"
ImgAlt == "\" alt=\""
Quote == "\""
WidthOpen == " width=\""
StyleOpen == " style=\"float: "
StyleClose == "; margin: 10px;\""
TagClose == ">"

Left == <<"l", "e", "f", "t">>
Right == <<"r", "i", "g", "h", "t">>

\* faulty variant: a variable once set is not assigned again (first token wins)
RECURSIVE ScanAttributesFirst(_, _, _, _)
ScanAttributesFirst(attributes, k, size, float_direction) ==
  IF k > Len(attributes)
  THEN [size |-> size, float_direction |-> float_direction]
  ELSE LET attr == Lower(Strip(attributes[k]))
       IN IF attr \in {Left, Right}
          THEN ScanAttributesFirst(attributes, k + 1, size,
                 IF float_direction = None THEN attr ELSE float_direction)
          ELSE IF IsDigit(attr)
          THEN ScanAttributesFirst(attributes, k + 1,
                 IF size = None THEN attr ELSE size, float_direction)
          ELSE ScanAttributesFirst(attributes, k + 1, size, float_direction)

\* the loop over attributes: every matching token assigns its variable
RECURSIVE ScanAttributes(_, _, _, _)
ScanAttributes(attributes, k, size, float_direction) ==
  IF k > Len(attributes)
  THEN [size |-> size, float_direction |-> float_direction]
  ELSE LET attr == Lower(Strip(attributes[k]))
       IN IF attr \in {Left, Right}
          THEN ScanAttributes(attributes, k + 1, size, attr)
          ELSE IF IsDigit(attr)
          THEN ScanAttributes(attributes, k + 1, attr, float_direction)
          ELSE ScanAttributes(attributes, k + 1, size, float_direction)

\* faulty variant: the vault root is tried before the attachments folder
FullImagePathRootFirst(f, path) ==
  IF ~IsAbs(path)
  THEN IF Join(VaultPath, path) \notin DOMAIN f
       THEN Join(Join(VaultPath, Attachments), path)
       ELSE Join(VaultPath, path)
  ELSE path

\* lines 43-51: the path process_image looks at
FullImagePath(f, path) ==
  IF ~IsAbs(path)
  THEN IF Join(Join(VaultPath, Attachments), path) \notin DOMAIN f
       THEN Join(VaultPath, path)
       ELSE Join(Join(VaultPath, Attachments), path)
  ELSE path

ImgTag(image_filename, a) ==
  <<ImgSrc>> \o image_filename \o <<ImgAlt>> \o image_filename \o <<Quote>>
    \o (IF a.size # None THEN <<WidthOpen>> \o a.size \o <<Quote>> ELSE <<>>)
    \o (IF a.float_direction # None
        THEN <<StyleOpen>> \o a.float_direction \o <<StyleClose>> ELSE <<>>)
    \o <<TagClose>>

\* faulty variant: an image already present in the output directory is not copied again
CopyImageKeep(f, src, dst) == IF dst \in DOMAIN f THEN f ELSE CopyFile(f, src, dst)

\* lines 55-60: the copy into output_path/images
CopyImage(f, src, dst) == CopyFile(f, src, dst)

\* process_image(path, attributes) on file system f: the returned tag (None
\* when the image is not found), the file system afterwards, the path looked at
ProcessImage(f, path, attributes) ==
  LET a == ScanAttributes(attributes, 1, None, None)
      full_image_path == FullImagePath(f, path)
  IN IF full_image_path \in DOMAIN f
     THEN LET image_filename == Basename(full_image_path)
              dst == Join(Join(OutputPath, Images), image_filename)
          IN [tag |-> ImgTag(image_filename, a),
              fs |-> CopyImage(f, full_image_path, dst),
              full |-> full_image_path]
     ELSE [tag |-> None, fs |-> f, full |-> full_image_path]

----------------------------------------------------------------------------
(* process_links (the closure inside process_content)                      *)

InPages(pgs, name) == \E k \in 1..Len(pgs) : pgs[k] = name

\* faulty variant: the display text is the first segment, not the last
ProcessLinksFirstText(pgs, group) ==
  LET link_parts == Split(group, "|")
      link_text == Strip(link_parts[1])
      link_target == Strip(link_parts[1])
  IN IF InPages(pgs, link_target \o MD)
     THEN <<"[">> \o link_text \o <<"]", "(">> \o link_target \o HTML \o <<")">>
     ELSE link_text

ProcessLinks(pgs, group) ==
  LET link_parts == Split(group, "|")
      link_text == Strip(link_parts[Len(link_parts)])
      link_target == Strip(link_parts[1])
  IN IF InPages(pgs, link_target \o MD)
     THEN <<"[">> \o link_text \o <<"]", "(">> \o link_target \o HTML \o <<")">>
     ELSE link_text

----------------------------------------------------------------------------
(* The three patterns of process_content.  re.sub replaces the leftmost    *)
(* match at or after the scan position, then goes on after it.             *)

\* r'!\[\[(.+?)\]\]' starting at i: positions j of the closing ']]'
EmbedEnds(t, i) ==
  IF ~StartsWithAt(t, i, <<"!", "[", "[">>) THEN {}
  ELSE {j \in (i + 4)..(Len(t) - 1) :
          t[j] = "]" /\ t[j + 1] = "]" /\ NoNL(t, i + 3, j - 1)}
EmbedStarts(t, from) == {i \in from..Len(t) : EmbedEnds(t, i) # {}}

\* r'\[\[(.+?)\]\]' starting at i
LinkEnds(t, i) ==
  IF ~StartsWithAt(t, i, <<"[", "[">>) THEN {}
  ELSE {j \in (i + 3)..(Len(t) - 1) :
          t[j] = "]" /\ t[j + 1] = "]" /\ NoNL(t, i + 2, j - 1)}
LinkStarts(t, from) == {i \in from..Len(t) : LinkEnds(t, i) # {}}

\* r'!\[(.*?)\]\((.+?)(\|.+?)?\)' starting at i.
\* k: the position of the ']' that ends the alt text; e: the last position
\* of the path; the optional third group is tried before the bare ')'.
AttrGroupEnds(t, e) ==
  IF e + 1 <= Len(t) /\ t[e + 1] = "|"
  THEN {g \in (e + 2)..(Len(t) - 1) : t[g + 1] = ")" /\ NoNL(t, e + 2, g)}
  ELSE {}
PathEnds(t, k) ==
  {e \in (k + 2)..(Len(t) - 1) :
     /\ NoNL(t, k + 2, e)
     /\ (t[e + 1] = ")" \/ AttrGroupEnds(t, e) # {})}
AltEnds(t, i) ==
  IF ~StartsWithAt(t, i, <<"!", "[">>) THEN {}
  ELSE {k \in (i + 2)..(Len(t) - 1) :
          /\ t[k] = "]" /\ t[k + 1] = "("
          /\ NoNL(t, i + 2, k - 1)
          /\ PathEnds(t, k) # {}}
MdImageStarts(t, from) == {i \in from..Len(t) : AltEnds(t, i) # {}}

\* the match of the third pattern at i: its groups and its last position
MdImageMatch(t, i) ==
  LET k == Min(AltEnds(t, i))
      e == Min(PathEnds(t, k))
      gs == AttrGroupEnds(t, e)
  IN [alt |-> SubSeq(t, i + 2, k - 1),
      path |-> SubSeq(t, k + 2, e),
      attrs |-> IF gs = {} THEN None ELSE SubSeq(t, e + 1, Min(gs)),
      last |-> IF gs = {} THEN e + 1 ELSE Min(gs) + 1]

IsImagePath(path) ==
  \E ext \in {<<".", "p", "n", "g">>, <<".", "j", "p", "g">>,
              <<".", "j", "p", "e", "g">>, <<".", "g", "i", "f">>} :
    EndsWith(Lower(path), ext)

----------------------------------------------------------------------------
(* process_content as a machine: stack holds one frame per active call.    *)
(* A frame scans content from pos and collects the substituted text in     *)
(* out; st is the pass it is in ("entry" before the guards of lines 23-28).*)

Frame(content, depth) ==
  [content |-> content, orig |-> content, depth |-> depth,
   st |-> "entry", pos |-> 1, out |-> <<>>, mstart |-> 0]

Top == stack[Len(stack)]
SetTop(f) == [stack EXCEPT ![Len(stack)] = f]
Rest(f) == SubSeq(f.content, f.pos, Len(f.content))
Before(f, i) == SubSeq(f.content, f.pos, i - 1)

\* faulty variant: the guard lets one more level through
DepthExceededLate(depth) == depth > MaxDepth + 1

\* line 27
DepthExceeded(depth) == depth > MaxDepth

\* the innermost call returns val: to its caller's substitution, or to the
\* caller of the top-level call
Return(val) ==
  IF Len(stack) = 1
  THEN /\ stack' = <<>>
       /\ pc' = "done"
       /\ result' = val
  ELSE LET n == Len(stack) - 1
       IN /\ stack' = [SubSeq(stack, 1, n) EXCEPT ![n].out = @ \o val]
          /\ UNCHANGED <<pc, result>>

Running(st) == pc = "run" /\ Len(stack) > 0 /\ Top.st = st

\* lines 23-25
CanEnterNone == Running("entry") /\ Top.content = NoneContent
EnterNone ==
  /\ CanEnterNone
  /\ Return(<<>>)
  /\ UNCHANGED <<fs, pages, scen, input, hist, trunc>>
  /\ steps' = steps + 1
  /\ UNCHANGED <<fvars, svars>>

\* lines 27-28
CanEnterTooDeep ==
  Running("entry") /\ Top.content # NoneContent /\ DepthExceeded(Top.depth)
EnterTooDeep ==
  /\ CanEnterTooDeep
  /\ trunc' = trunc \cup {Top.content}
  /\ Return(Top.content)
  /\ UNCHANGED <<fs, pages, scen, input, hist>>
  /\ steps' = steps + 1
  /\ UNCHANGED <<fvars, svars>>

\* line 120: the first pass begins
CanEnterPasses ==
  Running("entry") /\ Top.content # NoneContent /\ ~DepthExceeded(Top.depth)
EnterPasses ==
  /\ CanEnterPasses
  /\ stack' = SetTop([Top EXCEPT !.st = "embeds"])
  /\ UNCHANGED <<fs, pages, scen, input, pc, result, hist, trunc>>
  /\ steps' = steps + 1
  /\ UNCHANGED <<fvars, svars>>

\* the embed the first pass substitutes next
NextEmbed(f) ==
  LET i == Min(EmbedStarts(f.content, f.pos))
      j == Min(EmbedEnds(f.content, i))
      parts == Split(SubSeq(f.content, i + 3, j - 1), "|")
  IN [i |-> i, j |-> j,
      whole |-> SubSeq(f.content, i, j + 1),
      path |-> Strip(parts[1]),
      attributes |-> Tail(parts)]

HasEmbed(f) == EmbedStarts(f.content, f.pos) # {}

HistRecord(path, attributes, r, old) ==
  [path |-> path, attributes |-> attributes, full |-> r.full,
   tag |-> r.tag, same |-> (r.fs = old)]

\* process_embeds, image branch (lines 84-86)
CanEmbedImage ==
  Running("embeds") /\ HasEmbed(Top) /\ IsImagePath(NextEmbed(Top).path)
EmbedImage ==
  /\ CanEmbedImage
  /\ LET m == NextEmbed(Top)
         r == ProcessImage(fs, m.path, m.attributes)
     IN /\ fs' = r.fs
        /\ hist' = Append(hist, HistRecord(m.path, m.attributes, r, fs))
        /\ stack' = SetTop([Top EXCEPT
             !.out = @ \o Before(Top, m.i)
                       \o (IF r.tag # None THEN r.tag ELSE m.whole),
             !.pos = m.j + 2])
  /\ UNCHANGED <<pages, scen, input, pc, result, trunc>>
  /\ steps' = steps + 1
  /\ UNCHANGED <<fvars, svars>>

\* faulty variant: the embedded note keeps its frontmatter
EmbeddedBodyRaw(f, full_embed_path) == f[full_embed_path]

\* lines 93-95
EmbeddedBody(f, full_embed_path) == RemoveFrontmatter(f[full_embed_path])

\* process_embeds, note branch with the file present (lines 89-96): the
\* nested call starts; its return value is appended by Return
CanEmbedNote ==
  /\ Running("embeds") /\ HasEmbed(Top) /\ ~IsImagePath(NextEmbed(Top).path)
  /\ Join(VaultPath, NextEmbed(Top).path \o MD) \in DOMAIN fs
EmbedNote ==
  /\ CanEmbedNote
  /\ LET m == NextEmbed(Top)
         full_embed_path == Join(VaultPath, m.path \o MD)
     IN /\ stack' = Append(
             SetTop([Top EXCEPT !.out = @ \o Before(Top, m.i),
                                !.pos = m.j + 2,
                                !.mstart = m.i]),
             Frame(EmbeddedBody(fs, full_embed_path), Top.depth + 1))
  /\ UNCHANGED <<fs, pages, scen, input, pc, result, hist, trunc>>
  /\ steps' = steps + 1
  /\ UNCHANGED <<fvars, svars>>

\* process_embeds, note branch with the file missing (line 97)
CanEmbedMissing ==
  /\ Running("embeds") /\ HasEmbed(Top) /\ ~IsImagePath(NextEmbed(Top).path)
  /\ Join(VaultPath, NextEmbed(Top).path \o MD) \notin DOMAIN fs
EmbedMissing ==
  /\ CanEmbedMissing
  /\ LET m == NextEmbed(Top)
     IN /\ stack' = SetTop([Top EXCEPT
             !.out = @ \o Before(Top, m.i) \o m.whole,
             !.pos = m.j + 2])
  /\ UNCHANGED <<fs, pages, scen, input, pc, result, hist, trunc>>
  /\ steps' = steps + 1
  /\ UNCHANGED <<fvars, svars>>

\* line 120 is done, line 121 begins
CanEmbedsDone == Running("embeds") /\ ~HasEmbed(Top)
EmbedsDone ==
  /\ CanEmbedsDone
  /\ stack' = SetTop([Top EXCEPT !.content = Top.out \o Rest(Top),
                                 !.st = "links", !.pos = 1, !.out = <<>>])
  /\ UNCHANGED <<fs, pages, scen, input, pc, result, hist, trunc>>
  /\ steps' = steps + 1
  /\ UNCHANGED <<fvars, svars>>

\* line 121: one substitution by process_links
CanLinkStep == Running("links") /\ LinkStarts(Top.content, Top.pos) # {}
LinkStep ==
  /\ CanLinkStep
  /\ LET i == Min(LinkStarts(Top.content, Top.pos))
         j == Min(LinkEnds(Top.content, i))
     IN stack' = SetTop([Top EXCEPT
          !.out = @ \o Before(Top, i)
                    \o ProcessLinks(pages, SubSeq(Top.content, i + 2, j - 1)),
          !.pos = j + 2])
  /\ UNCHANGED <<fs, pages, scen, input, pc, result, hist, trunc>>
  /\ steps' = steps + 1
  /\ UNCHANGED <<fvars, svars>>

\* line 121 is done, line 122 begins
CanLinksDone == Running("links") /\ LinkStarts(Top.content, Top.pos) = {}
LinksDone ==
  /\ CanLinksDone
  /\ stack' = SetTop([Top EXCEPT !.content = Top.out \o Rest(Top),
                                 !.st = "images", !.pos = 1, !.out = <<>>])
  /\ UNCHANGED <<fs, pages, scen, input, pc, result, hist, trunc>>
  /\ steps' = steps + 1
  /\ UNCHANGED <<fvars, svars>>

\* line 122: one substitution by process_markdown_images (lines 99-106)
CanMdImageStep == Running("images") /\ MdImageStarts(Top.content, Top.pos) # {}
MdImageStep ==
  /\ CanMdImageStep
  /\ LET i == Min(MdImageStarts(Top.content, Top.pos))
         m == MdImageMatch(Top.content, i)
         attributes == IF m.attrs # None
                       THEN Split(StripChar(m.attrs, "|"), "|") ELSE <<>>
         r == ProcessImage(fs, m.path, attributes)
     IN /\ fs' = r.fs
        /\ hist' = Append(hist, HistRecord(m.path, attributes, r, fs))
        /\ stack' = SetTop([Top EXCEPT
             !.out = @ \o Before(Top, i)
                       \o (IF r.tag # None THEN r.tag
                           ELSE SubSeq(Top.content, i, m.last)),
             !.pos = m.last + 1])
  /\ UNCHANGED <<pages, scen, input, pc, result, trunc>>
  /\ steps' = steps + 1
  /\ UNCHANGED <<fvars, svars>>

\* line 124
CanImagesDone == Running("images") /\ MdImageStarts(Top.content, Top.pos) = {}
ImagesDone ==
  /\ CanImagesDone
  /\ Return(Top.out \o Rest(Top))
  /\ UNCHANGED <<fs, pages, scen, input, hist, trunc>>
  /\ steps' = steps + 1
  /\ UNCHANGED <<fvars, svars>>

----------------------------------------------------------------------------
(* The vaults and inputs the runs start from *)

Embed(x) == <<"!", "[", "[">> \o x \o <<"]", "]">>
Link(x) == <<"[", "[">> \o x \o <<"]", "]">>
MdImage(alt, x) == <<"!", "[">> \o alt \o <<"]", "(">> \o x \o <<")">>
Piped(parts) ==
  IF Len(parts) = 0 THEN <<>>
  ELSE LET RECURSIVE Go(_)
           Go(k) == IF k > Len(parts) THEN <<>>
                    ELSE <<"|">> \o parts[k] \o Go(k + 1)
       IN parts[1] \o Go(2)

Hello == <<"H", "e", "l", "l", "o", " ", "w", "o", "r", "l", "d">>
See == <<"S", "e", "e", " ">>
And == <<" ", "a", "n", "d", " ">>
PNG == <<".", "p", "n", "g">>

NoteA == <<"A">>
NoteB == <<"B">>
NoteC == <<"C">>
NoteD == <<"D">>
NoteS == <<"S">>
NoteT == <<"T">>
NoteF == <<"F">>
NoteG == <<"G">>
NoteM == <<"M">>            \* no file M.md exists
NoteW == <<"W">>
NoteNames == {NoteA, NoteB, NoteC, NoteD, NoteS, NoteT, NoteF, NoteG, NoteW}

RefP == <<"p">> \o PNG                          \* p.png
RefSub == <<"s", "u", "b", "/", "p">> \o PNG    \* sub/p.png
RefAbs == <<"/", "x", "/", "p">> \o PNG         \* /x/p.png
RefMissing == <<"m">> \o PNG                    \* m.png, in no folder

\* what each note file holds
NoteFile(n) ==
  CASE n = NoteA -> See \o Link(NoteB) \o And \o Embed(NoteB) \o <<".">>
    [] n = NoteB -> Hello
    [] n = NoteC -> <<"c">> \o Embed(NoteD)
    [] n = NoteD -> <<"d">> \o Embed(NoteC)
    [] n = NoteS -> Embed(NoteS)
    [] n = NoteW -> Embed(NoteW) \o Embed(NoteW)
    [] n = NoteT -> Embed(NoteT) \o Embed(NoteM)
    [] n = NoteF -> Dashes \o <<NL, "t", NL>> \o Dashes \o <<NL>> \o Hello
    [] n = NoteG -> Embed(NoteF) \o <<" ">> \o Embed(Piped(<<RefP, <<"3", "0">>>>))

\* the same notes as the text after their frontmatter block, written out
NoteBody(n) == IF n = NoteF THEN Hello ELSE NoteFile(n)

NotePath(n) == Join(VaultPath, n \o MD)

ImageFiles ==
  {Join(Join(VaultPath, Attachments), RefP), Join(VaultPath, RefP),
   Join(VaultPath, RefSub), RefAbs}

\* every image file has bytes of its own
ImageBytes(path) ==
  CASE path = Join(Join(VaultPath, Attachments), RefP) -> <<"bytes-attachments-p">>
    [] path = Join(VaultPath, RefP) -> <<"bytes-root-p">>
    [] path = Join(VaultPath, RefSub) -> <<"bytes-sub-p">>
    [] path = RefAbs -> <<"bytes-abs-p">>

VaultWith(images) ==
  [path \in {NotePath(n) : n \in NoteNames} \cup images |->
     IF path \in images THEN ImageBytes(path)
     ELSE NoteFile(CHOOSE n \in NoteNames : NotePath(n) = path)]

PageLists ==
  {<<>>, <<NoteA \o MD, NoteB \o MD>>,
   <<NoteA \o MD, NoteB \o MD, NoteC \o MD, NoteD \o MD, NoteS \o MD,
     NoteT \o MD, NoteF \o MD, NoteG \o MD>>}

Pres == {<<>>, <<"x", " ">>, <<"(">>}
Posts == {<<>>, <<" ", "y">>, <<NL, "z">>}
LinkTargets == {NoteB, NoteM, NoteA}
ShownTexts == {<<>>, <<"b">>, <<"t", "w", "o", " ", "w", "o", "r", "d", "s">>}
EmbedTargets == {NoteB, NoteF, NoteM, RefMissing}
AttrTokens ==
  {<<"3", "0", "0">>, <<"5", "0", "0">>, Left, <<"R", "I", "G", "H", "T">>,
   <<" ", "7", " ">>, <<"w">>}
RefKinds == {"p", "sub", "abs", "md"}

SeqsUpTo(S, n) == UNION {[1..k -> S] : k \in 0..n}

RefText(kind) ==
  CASE kind = "p" -> Embed(RefP)
    [] kind = "sub" -> Embed(RefSub)
    [] kind = "abs" -> Embed(RefAbs)
    [] kind = "md" -> MdImage(<<"a">>, RefP)

RECURSIVE RefsText(_)
RefsText(kinds) ==
  IF kinds = <<>> THEN <<>>
  ELSE RefText(Head(kinds)) \o <<" ">> \o RefsText(Tail(kinds))

Scenario(kind, pre, target, shown, post, attrs, refs) ==
  [kind |-> kind, pre |-> pre, target |-> target, shown |-> shown,
   post |-> post, attrs |-> attrs, refs |-> refs]

Scenarios ==
  {Scenario("none", <<>>, <<>>, <<>>, <<>>, <<>>, <<>>)}
  \cup {Scenario("page", <<>>, n, <<>>, <<>>, <<>>, <<>>) : n \in NoteNames}
  \cup {Scenario("link", x[1], x[2], x[3], x[4], <<>>, <<>>) :
          x \in Pres \X LinkTargets \X ShownTexts \X Posts}
  \cup {Scenario("embed", x[1], x[2], <<>>, x[3], <<>>, <<>>) :
          x \in Pres \X EmbedTargets \X Posts}
  \cup {Scenario(k, <<>>, RefP, <<>>, <<>>, a, <<>>) :
          k \in {"attrs", "mdattrs"}, a \in SeqsUpTo(AttrTokens, MaxAttrs)}
  \cup {Scenario("refs", <<>>, <<>>, <<>>, <<>>, <<>>, r) :
          r \in SeqsUpTo(RefKinds, MaxRefs) \ {<<>>}}

\* the content the top-level call gets
ScenarioInput(sc, f) ==
  CASE sc.kind = "none" -> NoneContent
    [] sc.kind = "page" -> RemoveFrontmatter(f[NotePath(sc.target)])
    [] sc.kind = "link" ->
         sc.pre \o Link(IF sc.shown = <<>> THEN sc.target
                        ELSE Piped(<<sc.target, sc.shown>>)) \o sc.post
    [] sc.kind = "embed" -> sc.pre \o Embed(sc.target) \o sc.post
    [] sc.kind = "attrs" -> Embed(Piped(<<sc.target>> \o sc.attrs))
    [] sc.kind = "mdattrs" -> MdImage(<<"a">>, Piped(<<sc.target>> \o sc.attrs))
    [] sc.kind = "refs" -> RefsText(sc.refs)

\* only the runs about image references vary the image files and fix the pages
ScenarioImages(sc) ==
  IF sc.kind = "refs" THEN SUBSET ImageFiles
  ELSE {{Join(Join(VaultPath, Attachments), RefP)}}
\* (W embeds itself twice: 4095 nested calls, run once, with no known pages)
ScenarioPages(sc) ==
  IF sc.kind = "page" /\ sc.target = NoteW THEN {<<>>}
  ELSE IF sc.kind \in {"page", "link", "embed"} THEN PageLists
  ELSE {<<NoteA \o MD, NoteB \o MD>>}

FIdle ==
  /\ fmText = <<>> /\ fmOnce = <<>> /\ fmTwice = <<>> /\ fmPc = "idle"
SIdle ==
  /\ sPages = <<>> /\ sMtime = <<>> /\ sIdx = 0 /\ sPc = "idle"
  /\ processed = <<>> /\ outcome = <<>> /\ written = {}
  /\ indexPages = <<>> /\ feedPages = <<>>
CIdle ==
  /\ fs = <<>> /\ pages = <<>> /\ scen = <<>> /\ input = <<>> /\ stack = <<>>
  /\ pc = "idle" /\ result = <<>> /\ hist = <<>> /\ trunc = {} /\ steps = 0

Init ==
  /\ scen \in Scenarios
  /\ fs \in {VaultWith(images) : images \in ScenarioImages(scen)}
  /\ pages \in ScenarioPages(scen)
  /\ input = ScenarioInput(scen, fs)
  /\ stack = <<Frame(input, 0)>>
  /\ pc = "run"
  /\ result = <<>>
  /\ hist = <<>>
  /\ trunc = {}
  /\ steps = 0
  /\ FIdle /\ SIdle

Next ==
  \/ EnterNone \/ EnterTooDeep \/ EnterPasses
  \/ EmbedImage \/ EmbedNote \/ EmbedMissing \/ EmbedsDone
  \/ LinkStep \/ LinksDone
  \/ MdImageStep \/ ImagesDone

Spec == Init /\ [][Next]_vars

----------------------------------------------------------------------------
(* remove_frontmatter applied once and twice to texts built line by line   *)

FmLines == {Dashes \o <<NL>>, Dashes \o <<" ", NL>>, <<"a", NL>>, <<NL>>}
FmLineCount(t) == Cardinality({k \in 1..Len(t) : t[k] = NL})

FmInit ==
  /\ fmText = <<>> /\ fmOnce = <<>> /\ fmTwice = <<>> /\ fmPc = "build"
  /\ CIdle /\ SIdle

FmAppendLine ==
  /\ fmPc = "build"
  /\ FmLineCount(fmText) < MaxLines
  /\ \E l \in FmLines : fmText' = fmText \o l
  /\ UNCHANGED <<fmOnce, fmTwice, fmPc>>
  /\ UNCHANGED <<cvars, svars>>

FmStrip ==
  /\ fmPc = "build"
  /\ fmOnce' = RemoveFrontmatter(fmText)
  /\ fmPc' = "once"
  /\ UNCHANGED <<fmText, fmTwice>>
  /\ UNCHANGED <<cvars, svars>>

FmStripAgain ==
  /\ fmPc = "once"
  /\ fmTwice' = RemoveFrontmatter(fmOnce)
  /\ fmPc' = "twice"
  /\ UNCHANGED <<fmText, fmOnce>>
  /\ UNCHANGED <<cvars, svars>>

FmNext == FmAppendLine \/ FmStrip \/ FmStripAgain

SpecFM == FmInit /\ [][FmNext]_vars

----------------------------------------------------------------------------
(* generate_site: the page loop, the index and the feeds.  What            *)
(* process_content, the Markdown converter and the templates return is     *)
(* opaque here; each of them may raise.                                    *)

SitePageNames == {NoteA \o MD, NoteB \o MD, NoteM \o MD}
SiteExisting == {NoteA \o MD, NoteB \o MD}       \* M.md is not in the vault
Mtimes == 1..2
RaisePoints == {"getmtime", "read", "process", "convert", "render", "open", "write"}

OutFile(name) == Join(OutputPath, name)
OutputFileOf(page) == Stem(page) \o HTML
IndexFile == <<"i", "n", "d", "e", "x">> \o HTML
StyleFile == <<"s", "t", "y", "l", "e", ".", "c", "s", "s">>
RssFile == <<"r", "s", "s", ".", "x", "m", "l">>
AtomFile == <<"a", "t", "o", "m", ".", "x", "m", "l">>

\* lines 217-222
PageEntry(page) ==
  [title |-> Stem(page), link |-> OutputFileOf(page),
   content |-> <<"html of ">> \o page, last_modified |-> sMtime[page]]

\* list.sort(key=last_modified, reverse=True): stable, newest first
RECURSIVE InsertByMtime(_, _)
InsertByMtime(sorted, e) ==
  IF sorted = <<>> THEN <<e>>
  ELSE IF Head(sorted).last_modified >= e.last_modified
       THEN <<Head(sorted)>> \o InsertByMtime(Tail(sorted), e)
       ELSE <<e>> \o sorted
RECURSIVE SortByMtime(_)
SortByMtime(entries) ==
  IF entries = <<>> THEN <<>>
  ELSE InsertByMtime(SortByMtime(SubSeq(entries, 1, Len(entries) - 1)),
                     entries[Len(entries)])

SiteInit ==
  /\ sPages \in SeqsUpTo(SitePageNames, MaxPages)
  /\ sMtime \in [SiteExisting -> Mtimes]
  /\ sIdx = 1
  /\ sPc = "start"
  /\ processed = <<>> /\ outcome = <<>> /\ written = {}
  /\ indexPages = <<>> /\ feedPages = <<>>
  /\ CIdle /\ FIdle

\* lines 164-185: style.css is copied when the templates folder has one
SiteStart ==
  /\ sPc = "start"
  /\ \E style_exists \in BOOLEAN :
       written' = IF style_exists THEN {OutFile(StyleFile)} ELSE {}
  /\ sPc' = "loop"
  /\ UNCHANGED <<sPages, sMtime, sIdx, processed, outcome, indexPages, feedPages>>
  /\ UNCHANGED <<cvars, fvars>>

\* lines 186-224: a page whose try block runs to its end
PageConverted ==
  /\ sPc = "loop"
  /\ sIdx <= Len(sPages)
  /\ sPages[sIdx] \in DOMAIN sMtime
  /\ written' = written \cup {OutFile(OutputFileOf(sPages[sIdx]))}
  /\ processed' = Append(processed, PageEntry(sPages[sIdx]))
  /\ outcome' = Append(outcome, "ok")
  /\ sIdx' = sIdx + 1
  /\ UNCHANGED <<sPages, sMtime, sPc, indexPages, feedPages>>
  /\ UNCHANGED <<cvars, fvars>>

\* faulty variant: the entry is appended before the page is written
ProcessedAfterRaiseListed(page, point) ==
  IF point = "write" THEN Append(processed, PageEntry(page)) ELSE processed

\* lines 193-228: processed_pages when the try block raised at point
ProcessedAfterRaise(page, point) == processed

\* lines 225-228: a page whose try block raises; the page is skipped.
\* A missing file raises at getmtime; a write that fails leaves the file.
PageRaises ==
  /\ sPc = "loop"
  /\ sIdx <= Len(sPages)
  /\ \E point \in RaisePoints :
       /\ sPages[sIdx] \notin DOMAIN sMtime => point = "getmtime"
       /\ written' = IF point = "write"
                     THEN written \cup {OutFile(OutputFileOf(sPages[sIdx]))}
                     ELSE written
       /\ processed' = ProcessedAfterRaise(sPages[sIdx], point)
       /\ outcome' = Append(outcome, "raised")
  /\ sIdx' = sIdx + 1
  /\ UNCHANGED <<sPages, sMtime, sPc, indexPages, feedPages>>
  /\ UNCHANGED <<cvars, fvars>>

\* lines 230-237
SortAndIndex ==
  /\ sPc = "loop"
  /\ sIdx > Len(sPages)
  /\ processed' = SortByMtime(processed)
  /\ indexPages' = processed'
  /\ written' = written \cup {OutFile(IndexFile)}
  /\ sPc' = "feeds"
  /\ UNCHANGED <<sPages, sMtime, sIdx, outcome, feedPages>>
  /\ UNCHANGED <<cvars, fvars>>

\* lines 239-241 and generate_feeds
GenerateFeeds ==
  /\ sPc = "feeds"
  /\ feedPages' = processed
  /\ written' = written \cup {OutFile(RssFile), OutFile(AtomFile)}
  /\ sPc' = "done"
  /\ UNCHANGED <<sPages, sMtime, sIdx, processed, outcome, indexPages>>
  /\ UNCHANGED <<cvars, fvars>>

SiteNext ==
  SiteStart \/ PageConverted \/ PageRaises \/ SortAndIndex \/ GenerateFeeds

SpecSite == SiteInit /\ [][SiteNext]_vars

----------------------------------------------------------------------------
(* Properties *)

IsCyclicNote(n) == n \in {NoteC, NoteD, NoteS, NoteT, NoteW}

\* the actions of process_content that can take the next step
EnabledSteps ==
  {k \in 1..11 :
     <<CanEnterNone, CanEnterTooDeep, CanEnterPasses, CanEmbedImage,
       CanEmbedNote, CanEmbedMissing, CanEmbedsDone, CanLinkStep,
       CanLinksDone, CanMdImageStep, CanImagesDone>>[k]}

\* C1: process_content terminates on every vault, cyclic embeds included:
\* the nested calls are one per level and no call runs its passes at a
\* depth above 10; until the top-level call has returned exactly one step
\* is possible (the run and its output are determined by the vault); and
\* no run takes more than MaxSteps steps.
C1_Terminates ==
  /\ Len(stack) <= MaxDepth + 2
  /\ \A k \in 1..Len(stack) :
       /\ stack[k].depth = k - 1
       /\ stack[k].st # "entry" => stack[k].depth <= MaxDepth
  /\ pc = "run" => Cardinality(EnabledSteps) = 1
  /\ pc = "done" => (EnabledSteps = {} /\ stack = <<>>)
  /\ steps <= MaxSteps

\* a cyclic note was transformed, the ceiling was hit and the call returned
C1_Witness ==
  /\ pc = "done"
  /\ scen.kind = "page" /\ IsCyclicNote(scen.target)
  /\ trunc # {}

\* C2: an embed whose target cannot be found is still in the text the
\* complete process_content call returns.
C2_MissingEmbedKept ==
  (pc = "done" /\ scen.kind = "embed" /\ scen.target \in {NoteM, RefMissing})
    => Contains(result, Embed(scen.target))

ShownText(sc) == IF sc.shown = <<>> THEN sc.target ELSE sc.shown

\* C3: a link [[Target]] or [[Target|Shown]] becomes a hyperlink to
\* Target.html with the visible text when Target.md is a known page, and
\* the bare visible text otherwise; the text around it is left alone.
C3_LinkResolved ==
  (pc = "done" /\ scen.kind = "link") =>
    result = scen.pre
             \o (IF \E k \in 1..Len(pages) : pages[k] = scen.target \o MD
                 THEN <<"[">> \o ShownText(scen) \o <<"]", "(">>
                        \o scen.target \o HTML \o <<")">>
                 ELSE ShownText(scen))
             \o scen.post

C3_Witness ==
  /\ pc = "done" /\ scen.kind = "link" /\ scen.shown # <<>>
  /\ \E k \in 1..Len(pages) : pages[k] = scen.target \o MD

\* the attribute tokens that name a width, and those that name a float
WidthTokens(attributes) ==
  {k \in 1..Len(attributes) : IsDigit(Lower(Strip(attributes[k])))}
FloatTokens(attributes) ==
  {k \in 1..Len(attributes) : Lower(Strip(attributes[k])) \in {Left, Right}}

\* the image construct for basename b whose width is token w and whose
\* float is token f of attributes (0: none)
TagWith(b, attributes, w, f) ==
  <<ImgSrc>> \o b \o <<ImgAlt>> \o b \o <<Quote>>
    \o (IF w = 0 THEN <<>>
        ELSE <<WidthOpen>> \o Lower(Strip(attributes[w])) \o <<Quote>>)
    \o (IF f = 0 THEN <<>>
        ELSE <<StyleOpen>> \o Lower(Strip(attributes[f])) \o <<StyleClose>>)
    \o <<TagClose>>

FirstOf(S) == IF S = {} THEN 0 ELSE Min(S)
LastOf(S) == IF S = {} THEN 0 ELSE Max(S)

DashLineAt(t, i, m) ==
  /\ StartsWithAt(t, i, <<"-", "-", "-">>)
  /\ i + 3 <= m /\ m <= Len(t)
  /\ t[m] = NL
  /\ \A k \in (i + 3)..(m - 1) : IsSpace(t[k])

\* t starts with a frontmatter block: a '---' line, content that ends with
\* a newline, a '---' line
HasFrontmatter(t) ==
  \E a \in 1..Len(t) : \E b \in (a + 1)..Len(t) : \E c \in (b + 1)..Len(t) :
    DashLineAt(t, 1, a) /\ t[b] = NL /\ DashLineAt(t, b + 1, c)

\* C5 as stated: stripping twice equals stripping once for every text that
\* starts with a frontmatter block, and a text without one is unchanged.
C5_Idempotent ==
  fmPc = "twice" =>
    /\ HasFrontmatter(fmText) => fmTwice = fmOnce
    /\ ~HasFrontmatter(fmText) => fmOnce = fmText

\* C5 amended: stripping twice equals stripping once for every text that
\* starts with a frontmatter block whose remaining body does not itself
\* start with one, and a text without a block at position zero is unchanged.
C5_IdempotentOnce ==
  fmPc = "twice" =>
    /\ (HasFrontmatter(fmText) /\ ~HasFrontmatter(fmOnce)) => fmTwice = fmOnce
    /\ ~HasFrontmatter(fmText) => fmOnce = fmText

\* a block was stripped and the body that is left starts with none
C5_Witness ==
  /\ fmPc = "twice"
  /\ HasFrontmatter(fmText) /\ ~HasFrontmatter(fmOnce)
  /\ fmOnce # fmText /\ fmOnce # <<>>

OkEntries == {i \in 1..Len(outcome) : outcome[i] = "ok"}

\* C6: whichever pages raise, the run goes on to the index and the feeds,
\* every other page is written, and the list given to the index template
\* and to the feed builder has one entry per page that did not raise and
\* none for a page that raised.
C6_FailedPagesSkipped ==
  /\ sPc \notin {"idle", "done"} => ENABLED SiteNext
  /\ sPc = "done" =>
       /\ Len(outcome) = Len(sPages)
       /\ feedPages = indexPages
       /\ Len(indexPages) = Cardinality(OkEntries)
       /\ \A n \in SitePageNames :
            Cardinality({k \in 1..Len(indexPages) :
                           /\ indexPages[k].title = Stem(n)
                           /\ indexPages[k].link = Stem(n) \o HTML})
              = Cardinality({i \in OkEntries : sPages[i] = n})
       /\ \A i \in OkEntries : OutFile(Stem(sPages[i]) \o HTML) \in written
       /\ {OutFile(IndexFile), OutFile(RssFile), OutFile(AtomFile)} \subseteq written

\* a page raised, a later page did not, and the run is over
C6_Witness ==
  /\ sPc = "done"
  /\ \E i \in 1..Len(outcome) : \E j \in 1..Len(outcome) :
       i < j /\ outcome[i] = "raised" /\ outcome[j] = "ok"

\* the target of the embed that frame f is expanding
PendingTarget(f) ==
  LET from == f.mstart + 3
      bars == {k \in from..(f.pos - 3) : f.content[k] = "|"}
  IN Strip(SubSeq(f.content, from,
                  IF bars = {} THEN f.pos - 3 ELSE Min(bars) - 1))

\* C7: a note embed whose file exists starts a call one level deeper on the
\* note's text without its frontmatter, and what that call returns takes
\* the embed's place; transforming note A of the scenario gives a hyperlink
\* to B.html and the text of B inline.
C7_NoteEmbedExpanded ==
  /\ \A k \in 2..Len(stack) :
       /\ stack[k - 1].depth <= MaxDepth
       /\ stack[k].depth = stack[k - 1].depth + 1
       /\ stack[k].orig = NoteBody(PendingTarget(stack[k - 1]))
  /\ (pc = "done" /\ scen.kind = "embed" /\ scen.target \in {NoteB, NoteF})
       => result = scen.pre \o Hello \o scen.post
  /\ (pc = "done" /\ scen.kind = "page" /\ scen.target = NoteA
        /\ (\E k \in 1..Len(pages) : pages[k] = NoteB \o MD))
       => result = See \o <<"[", "B", "]", "(", "B">> \o HTML \o <<")">>
                     \o And \o Hello \o <<".">>

\* the scenario of the claim has run with pages = [A.md, B.md]
C7_Witness ==
  /\ pc = "done" /\ scen.kind = "page" /\ scen.target = NoteA
  /\ pages = <<NoteA \o MD, NoteB \o MD>>

OutImage(b) == Join(Join(OutputPath, Images), b)
Resolved(k) == hist[k].tag # None
SameBasename(k) ==
  {m \in 1..Len(hist) :
     Resolved(m) /\ Basename(hist[m].full) = Basename(hist[k].full)}

\* C8: every resolved image reference with basename b gave a construct
\* whose src is images/b, and output/images/b holds the bytes of the source
\* of the latest resolved reference with that basename.
C8_LastCopyWins ==
  \A k \in 1..Len(hist) :
    Resolved(k) =>
      LET b == Basename(hist[k].full)
      IN /\ StartsWithAt(hist[k].tag, 1, <<ImgSrc>> \o b \o <<ImgAlt>>)
         /\ OutImage(b) \in DOMAIN fs
         /\ fs[OutImage(b)] = ImageBytes(hist[Max(SameBasename(k))].full)

\* two different sources with one basename were copied one after the other
C8_Witness ==
  \E k \in 1..Len(hist) : \E m \in 1..Len(hist) :
    /\ k < m /\ Resolved(k) /\ Resolved(m)
    /\ hist[k].full # hist[m].full
    /\ Basename(hist[k].full) = Basename(hist[m].full)

InAttachments(path) == Join(Join(VaultPath, Attachments), path)
InVaultRoot(path) == Join(VaultPath, path)

\* C9: process_image looks at an absolute reference as given, at
\* vault/attachments/reference when that exists, else at vault/reference;
\* when the file looked at does not exist it returns None and leaves the
\* file system as it was.
C9_ImageResolution ==
  \A k \in 1..Len(hist) :
    LET h == hist[k]
    IN /\ IsAbs(h.path) => h.full = h.path
       /\ (~IsAbs(h.path) /\ InAttachments(h.path) \in DOMAIN fs)
            => (h.full = InAttachments(h.path) /\ h.tag # None)
       /\ (~IsAbs(h.path) /\ InAttachments(h.path) \notin DOMAIN fs
             /\ InVaultRoot(h.path) \in DOMAIN fs)
            => (h.full = InVaultRoot(h.path) /\ h.tag # None)
       /\ (~IsAbs(h.path) /\ InAttachments(h.path) \notin DOMAIN fs
             /\ InVaultRoot(h.path) \notin DOMAIN fs)
            => (h.tag = None /\ h.same)
       /\ (IsAbs(h.path) /\ h.path \notin DOMAIN fs) => (h.tag = None /\ h.same)
       /\ (IsAbs(h.path) /\ h.path \in DOMAIN fs) => h.tag # None

\* a relative reference that exists in both folders, and one found nowhere
C9_Witness ==
  /\ \E k \in 1..Len(hist) :
       /\ InAttachments(hist[k].path) \in DOMAIN fs
       /\ InVaultRoot(hist[k].path) \in DOMAIN fs
       /\ hist[k].tag # None
  /\ \E k \in 1..Len(hist) : hist[k].tag = None

\* C10: the embeds of a content that the depth guard returned unchanged are
\* still in the text the top-level call returns.
C10_TruncatedEmbedKept ==
  pc = "done" =>
    \A c \in trunc : \A i \in EmbedStarts(c, 1) :
      Contains(result, SubSeq(c, i, Min(EmbedEnds(c, i)) + 1))

====
